---- MODULE Spec2Model ----
(***************************************************************************)
(* Model of PuReMath.py: the response cache, the per-user rate limiter,    *)
(* the model client with its retry loop and the question dispatcher.       *)
(* Time is counted in whole seconds.                                       *)
(***************************************************************************)
EXTENDS Integers, Sequences, FiniteSets, TLC

\* ------------------------------------------------------------------ bounds
\* Latest instant the rate-limiter specification lets the clock reach.
MaxRateTime == 130
\* Latest instant the cache specifications let the clock reach.
MaxCacheTime == 1209600
\* Number of questions the dispatcher handles, and the latest instant at which
\* one is asked.
MaxRequests == 6
MaxMainTime == 2
\* Length of the strings the text functions are applied to.
MaxTextLen == 5
\* Number of updates the Bot API holds, and of failed polls.
MaxUpdates == 2
MaxPollFails == 1
\* set calls counted while several threads persist the cache
MaxSaves == 2

\* ------------------------------------------------------- program constants
RATE_LIMIT_PER_USER == 5
RATE_WINDOW == 60

CACHE_EXPIRY_DAYS == 7
SECONDS_PER_DAY == 86400
CACHE_FILE == "response_cache.json"

Questions == {"q1", "q2"}
\* The responses handed to ResponseCache.set, as sequences of characters.
CacheTexts == {<<>>, <<"k">>}
\* Python's None, told apart from every string.
None == <<"None">>
\* The thread that persists the cache, and a second one calling it concurrently.
Threads == {1, 2}
\* Amounts by which the clock moves between two cache calls.
CacheTickSteps == {CACHE_EXPIRY_DAYS * SECONDS_PER_DAY - 1, CACHE_EXPIRY_DAYS * SECONDS_PER_DAY}

MAX_RETRIES == 3
RETRY_DELAY == 2
MODEL_TIMEOUT == 60
MIN_RESPONSE_LENGTH == 10
LOG_RESPONSE_LIMIT == 1000
POLL_BACKOFF == 5
ERROR_BACKOFF == 10
MAX_MESSAGE_LENGTH == 4000

\* Texts the backend returns: none, one that normalizes to nothing, one too
\* short to be used, and a usable one.
TextBlank == <<"\\", ",">>
TextShort == <<"x", "=", "5">>
TextGood == <<"x", "^", "{", "2", "}", "=", "4", " ", "\\", "t", "o", " ", "x", "=", "2">>
BackendTexts == {<<>>, TextBlank, TextShort, TextGood}
\* What one generate_content call does: it raises, or returns a text.
BackendOutcomes ==
    {[raises |-> TRUE, text |-> <<>>]} \cup {[raises |-> FALSE, text |-> t] : t \in BackendTexts}
\* Seconds one generate_content call takes.
CallDurations == {0, 30}
\* The users that ask questions, and the questions they ask.
MainUsers == {1}
MainQuestions == {"q1"}

Users == {1, 2}
\* Amounts by which the clock moves between two rate-limiter calls.
RateTickSteps == {20, 60}

VARIABLES
    now,            \* time.time(), in seconds
    user_requests,  \* RateLimiter.user_requests: dict user_id -> list of instants
    admitLog,       \* history: per user, the admissions of the last 60 seconds (inclusive)
    lastCheck,      \* history: the check_rate_limit call just made and its result
    everRejected,   \* history: the users check_rate_limit has rejected so far
    cache,          \* ResponseCache.cache: dict digest -> {response, timestamp}
    lock,           \* ResponseCache.lock
    names,          \* the directory: file name -> inode
    inodes,         \* inode -> the chunks the file holds
    thr,            \* per thread: where it stands in set / save_cache, its open file
    lastSet,        \* history: per question, the latest set() since the process started
    lastGet,        \* history: the get() just made and what it returned
    saving,         \* history: the cache file when save_cache was entered, and the dict to write
    recovered,      \* history: what _load_cache returned at the latest restart
    nsave,          \* history: number of set calls begun, counted up to MaxSaves
    qlog,           \* the file user_questions.json: whether it parses, and its records
    req,            \* process_math_question: where the dispatcher stands, and its locals
    wrk,            \* the worker thread running get_gemini_response
    eff,            \* history: what the request under way has done so far
    snap,           \* history: the cache, the files and the log when the request began
    prevCall,       \* history: the get_gemini_response call before the one under way
    nreq,           \* number of questions handled so far
    loop,           \* process_messages: where the loop stands, offset, the batch, the update
    server,         \* the updates the Bot API holds for the bot
    handled,        \* history: per update id, how often the loop has taken it up
    textOp,         \* the text function applied last
    textIn,         \* the string it was applied to
    textOut         \* the string it returned

rateVars == <<user_requests, admitLog, lastCheck, everRejected>>
cacheVars == <<cache, lock, names, inodes, thr>>
cacheHist == <<lastSet, lastGet, saving, recovered, nsave>>
mainVars == <<qlog, req, wrk, eff, snap, prevCall, nreq>>
loopVars == <<loop, server, handled>>
textVars == <<textOp, textIn, textOut>>
vars == <<now, rateVars, cacheVars, cacheHist, mainVars, loopVars, textVars>>

NoCheck == [user |-> 0, result |-> FALSE, before |-> <<>>, known |-> FALSE]

\* ------------------------------------------------------------ RateLimiter
\* The list comprehension of lines 173-176 keeping the instants exactly 60 seconds old.
PruneOldKeepsBoundary(window, t) == SelectSeq(window, LAMBDA x : t - x <= RATE_WINDOW)

\* Lines 173-176: keep the instants less than 60 seconds old.
PruneOld(window, t) == SelectSeq(window, LAMBDA x : t - x < RATE_WINDOW)

\* The test of line 178 off by one.
AtQuotaOffByOne(window) == Len(window) > RATE_LIMIT_PER_USER

\* Line 178: the pruned window is full.
AtQuota(window) == Len(window) >= RATE_LIMIT_PER_USER

\* check_rate_limit that records the instant of a rejected call as well.
CheckRateLimitRecording(ur, u, t) ==
    IF u \notin DOMAIN ur
    THEN [ok |-> TRUE, ur |-> ur @@ (u :> <<t>>)]
    ELSE LET pruned == PruneOld(ur[u], t) IN
         [ok |-> ~AtQuota(pruned), ur |-> [ur EXCEPT ![u] = Append(pruned, t)]]

\* check_rate_limit(user_id) at instant t on the dict ur: the returned value
\* and the dict afterwards.
CheckRateLimit(ur, u, t) ==
    IF u \notin DOMAIN ur
    THEN [ok |-> TRUE, ur |-> ur @@ (u :> <<t>>)]
    ELSE LET pruned == PruneOld(ur[u], t) IN
         IF AtQuota(pruned)
         THEN [ok |-> FALSE, ur |-> [ur EXCEPT ![u] = pruned]]
         ELSE [ok |-> TRUE, ur |-> [ur EXCEPT ![u] = Append(pruned, t)]]

\* The history kept beside a check_rate_limit call.
RecordCheck(u, res) ==
    /\ lastCheck' = [user |-> u, result |-> res.ok, before |-> admitLog[u], known |-> TRUE]
    /\ admitLog' = IF res.ok THEN [admitLog EXCEPT ![u] = Append(@, now)] ELSE admitLog
    /\ everRejected' = IF res.ok THEN everRejected ELSE everRejected \cup {u}

\* A direct call of rate_limiter.check_rate_limit(u).
RateCall(u) ==
    LET res == CheckRateLimit(user_requests, u, now) IN
    /\ user_requests' = res.ur
    /\ RecordCheck(u, res)
    /\ UNCHANGED <<loopVars, textVars, now, cacheVars, cacheHist, mainVars>>

\* The history after the clock has moved to t: admissions more than 60 seconds
\* old lie in no 60-second window that ends at t or later, and the record of
\* the call just made is dropped.
ForgetOld(t) ==
    /\ admitLog' = [u \in Users |-> SelectSeq(admitLog[u], LAMBDA x : t - x <= RATE_WINDOW)]
    /\ lastCheck' = NoCheck

\* The clock moves on between two calls.
RateTick(d) ==
    /\ now + d <= MaxRateTime
    /\ now' = now + d
    /\ ForgetOld(now + d)
    /\ UNCHANGED <<loopVars, textVars, user_requests, everRejected, cacheVars, cacheHist, mainVars>>

InitRate ==
    /\ now = 0
    /\ user_requests = <<>>
    /\ admitLog = [u \in Users |-> <<>>]
    /\ lastCheck = NoCheck
    /\ everRejected = {}

\* ---------------------------------------------------------- ResponseCache
\* _hash_question: the md5 digest of the question, one digest per question.
HashQuestion(q) == CASE q = "q1" -> 1 [] q = "q2" -> 2

\* datetime.isoformat(): the date and the time of day, written apart.
IsoFormat(t) == <<t \div SECONDS_PER_DAY, t % SECONDS_PER_DAY>>

\* datetime.fromisoformat()
FromIsoFormat(s) == s[1] * SECONDS_PER_DAY + s[2]

\* timedelta.days: the whole days of a difference.
Days(delta) == delta \div SECONDS_PER_DAY

\* The expiry test with the boundary day included.
NotExpiredInclusive(entry, t) ==
    Days(t - FromIsoFormat(entry.timestamp)) <= CACHE_EXPIRY_DAYS

\* Lines 121 and 144: the entry is less than CACHE_EXPIRY_DAYS whole days old.
NotExpired(entry, t) ==
    Days(t - FromIsoFormat(entry.timestamp)) < CACHE_EXPIRY_DAYS

\* ResponseCache.get(question) at instant t.
CacheGet(c, q, t) ==
    LET h == HashQuestion(q) IN
    IF h \in DOMAIN c /\ NotExpired(c[h], t) THEN c[h].response ELSE None

\* A set that drops the expired entries before the assignment.
CachePutPruning(c, q, r, t) ==
    LET h == HashQuestion(q)
        e == [response |-> r, timestamp |-> IsoFormat(t)] IN
    [k \in {k \in DOMAIN c : NotExpired(c[k], t)} \cup {h} |-> IF k = h THEN e ELSE c[k]]

\* Lines 149-153 of ResponseCache.set: the dict after the assignment.
CachePut(c, q, r, t) ==
    LET h == HashQuestion(q)
        e == [response |-> r, timestamp |-> IsoFormat(t)] IN
    [k \in DOMAIN c \cup {h} |-> IF k = h THEN e ELSE c[k]]

\* ---- the cache file: a sequence of chunks, one per entry, then the closing one
NoEntry == [response |-> <<>>, timestamp |-> <<0, 0>>]
EntryChunk(k, e) == [kind |-> "entry", key |-> k, entry |-> e]
EndChunk == [kind |-> "end", key |-> 0, entry |-> NoEntry]
HoleChunk == [kind |-> "hole", key |-> 0, entry |-> NoEntry]
NoFile == <<[kind |-> "nofile", key |-> 0, entry |-> NoEntry]>>

SetMin(S) == CHOOSE x \in S : \A y \in S : x <= y

\* json.dump(self.cache): the chunks of the dict c, restricted to the keys ks.
RECURSIVE DumpChunks(_, _)
DumpChunks(c, ks) ==
    IF ks = {} THEN <<EndChunk>>
    ELSE LET k == SetMin(ks) IN <<EntryChunk(k, c[k])>> \o DumpChunks(c, ks \ {k})

Serialize(c) == DumpChunks(c, DOMAIN c)

\* A write of one chunk at offset off of a file.
WriteAt(content, off, chunk) ==
    IF off < Len(content) THEN [content EXCEPT ![off + 1] = chunk]
    ELSE content \o [i \in 1..(off - Len(content)) |-> HoleChunk] \o <<chunk>>

\* json.load succeeds on exactly the complete files.
WellFormed(content) ==
    /\ Len(content) >= 1
    /\ content[Len(content)].kind = "end"
    /\ \A i \in 1..(Len(content) - 1) : content[i].kind = "entry"

\* json.load: the dict a complete file holds.
ParsedDict(content) ==
    LET idx == 1..(Len(content) - 1) IN
    [k \in {content[i].key : i \in idx} |->
        content[CHOOSE i \in idx : content[i].key = k /\ \A j \in idx : content[j].key = k => j <= i].entry]

\* What the name n holds.
FileContent(nm, ino, n) == IF n \in DOMAIN nm THEN ino[nm[n]] ELSE NoFile

\* The dict comprehension of lines 120-121.
DropExpired(c, t) == [k \in {k \in DOMAIN c : NotExpired(c[k], t)} |-> c[k]]

\* _load_cache at instant t: the file's unexpired entries, and the empty dict when
\* there is no file or json.load raises.
LoadCache(nm, ino, t) ==
    LET content == FileContent(nm, ino, CACHE_FILE) IN
    IF CACHE_FILE \in DOMAIN nm /\ WellFormed(content)
    THEN DropExpired(ParsedDict(content), t)
    ELSE <<>>

\* save_cache writing into the cache file itself.
TempFileNameInPlace(file) == file

\* Line 132: temp_file = f"{self.cache_file}.tmp"
TempFileName(file) == file \o ".tmp"

\* ------------------------------------------------- preprocess_math_text
\* Strings are sequences of characters; a character outside ASCII is written
\* by its name between angle brackets.
WordChars ==
    {"a", "b", "c", "d", "e", "f", "g", "h", "i", "j", "k", "l", "m", "n", "o", "p", "q",
     "r", "s", "t", "u", "v", "w", "x", "y", "z", "0", "1", "2", "3", "4", "5", "6", "7",
     "8", "9", "_"}
Whitespace == {" ", "\n", "\t", "\r"}

StartsWith(s, pat) == Len(s) >= Len(pat) /\ SubSeq(s, 1, Len(pat)) = pat
Drop(s, n) == SubSeq(s, n + 1, Len(s))

\* Index of the first closing brace of s, 0 when there is none.
FirstClose(s) ==
    IF \E i \in 1..Len(s) : s[i] = "}"
    THEN CHOOSE i \in 1..Len(s) : s[i] = "}" /\ \A j \in 1..(i - 1) : s[j] # "}"
    ELSE 0

\* re.sub of a pattern without groups: every occurrence of pat, left to right,
\* becomes rep; with boundary set the pattern ends in \b.
RECURSIVE SubLiteral(_, _, _, _)
SubLiteral(s, pat, rep, boundary) ==
    IF s = <<>> THEN <<>>
    ELSE IF /\ StartsWith(s, pat)
            /\ boundary => (Len(s) = Len(pat) \/ s[Len(pat) + 1] \notin WordChars)
         THEN rep \o SubLiteral(Drop(s, Len(pat)), pat, rep, boundary)
         ELSE <<Head(s)>> \o SubLiteral(Tail(s), pat, rep, boundary)

\* re.sub of a pattern made of an opening (that ends with the brace), a group
\* that runs to the first closing brace, and the closing brace. keep tells
\* whether the replacement holds the group (\1); with dotall false the group is
\* .*? and does not run over a line break.
RECURSIVE SubGroup(_, _, _, _, _, _)
SubGroup(s, pat, pre, post, keep, dotall) ==
    IF s = <<>> THEN <<>>
    ELSE LET rest == Drop(s, Len(pat))
             j == FirstClose(rest)
             inner == SubSeq(rest, 1, j - 1) IN
         IF /\ StartsWith(s, pat)
            /\ j > 0
            /\ dotall \/ \A i \in 1..(j - 1) : rest[i] # "\n"
         THEN pre \o (IF keep THEN inner ELSE <<>>) \o post
                  \o SubGroup(Drop(rest, j), pat, pre, post, keep, dotall)
         ELSE <<Head(s)>> \o SubGroup(Tail(s), pat, pre, post, keep, dotall)

\* re.sub of \\frac\{([^}]*)\}\{([^}]*)\} by \1/\2.
RECURSIVE SubFrac(_, _, _)
SubFrac(s, pat, mid) ==
    IF s = <<>> THEN <<>>
    ELSE LET rest == Drop(s, Len(pat))
             j == FirstClose(rest)
             after == Drop(rest, j + 1)
             k == FirstClose(after) IN
         IF /\ StartsWith(s, pat)
            /\ j > 0
            /\ Len(rest) > j /\ rest[j + 1] = "{"
            /\ k > 0
         THEN SubSeq(rest, 1, j - 1) \o mid \o SubSeq(after, 1, k - 1)
                  \o SubFrac(Drop(after, k), pat, mid)
         ELSE <<Head(s)>> \o SubFrac(Tail(s), pat, mid)

\* The table of lines 188-223, in its order.
Replacements ==
    <<
        [kind |-> "litb", pat |-> <<"\\", "p", "m", "o", "d">>, pre |-> <<" ", "m", "o", "d", " ">>, post |-> <<>>],
        [kind |-> "litb", pat |-> <<"\\", "m", "o", "d">>, pre |-> <<" ", "m", "o", "d", " ">>, post |-> <<>>],
        [kind |-> "lazy", pat |-> <<"\\", "b", "e", "g", "i", "n", "{">>, pre |-> <<>>, post |-> <<>>],
        [kind |-> "lazy", pat |-> <<"\\", "e", "n", "d", "{">>, pre |-> <<>>, post |-> <<>>],
        [kind |-> "group", pat |-> <<"\\", "b", "o", "x", "e", "d", "{">>, pre |-> <<"[">>, post |-> <<"]">>],
        [kind |-> "group", pat |-> <<"\\", "t", "e", "x", "t", "{">>, pre |-> <<>>, post |-> <<>>],
        [kind |-> "lit", pat |-> <<"\\", "q", "q", "u", "a", "d">>, pre |-> <<" ", " ", " ", " ">>, post |-> <<>>],
        [kind |-> "lit", pat |-> <<"\\", "q", "u", "a", "d">>, pre |-> <<" ", " ">>, post |-> <<>>],
        [kind |-> "lit", pat |-> <<"\\", ",">>, pre |-> <<" ">>, post |-> <<>>],
        [kind |-> "lit", pat |-> <<"\\", " ">>, pre |-> <<" ">>, post |-> <<>>],
        [kind |-> "lit", pat |-> <<"\\", "l", "e", "f", "t", "\\", "{">>, pre |-> <<"{">>, post |-> <<>>],
        [kind |-> "lit", pat |-> <<"\\", "r", "i", "g", "h", "t", "\\", "}">>, pre |-> <<"}">>, post |-> <<>>],
        [kind |-> "lit", pat |-> <<"\\", "l", "e", "f", "t", "(">>, pre |-> <<"(">>, post |-> <<>>],
        [kind |-> "lit", pat |-> <<"\\", "r", "i", "g", "h", "t", ")">>, pre |-> <<")">>, post |-> <<>>],
        [kind |-> "lit", pat |-> <<"\\", "l", "e", "f", "t", "[">>, pre |-> <<"[">>, post |-> <<>>],
        [kind |-> "lit", pat |-> <<"\\", "r", "i", "g", "h", "t", "]">>, pre |-> <<"]">>, post |-> <<>>],
        [kind |-> "lit", pat |-> <<"\\", "t", "i", "m", "e", "s">>, pre |-> <<"<times>">>, post |-> <<>>],
        [kind |-> "lit", pat |-> <<"\\", "d", "i", "v">>, pre |-> <<"<div>">>, post |-> <<>>],
        [kind |-> "lit", pat |-> <<"\\", "l", "e", "q">>, pre |-> <<"<leq>">>, post |-> <<>>],
        [kind |-> "lit", pat |-> <<"\\", "g", "e", "q">>, pre |-> <<"<geq>">>, post |-> <<>>],
        [kind |-> "lit", pat |-> <<"\\", "n", "e", "q">>, pre |-> <<"<neq>">>, post |-> <<>>],
        [kind |-> "lit", pat |-> <<"\\", "a", "p", "p", "r", "o", "x">>, pre |-> <<"<approx>">>, post |-> <<>>],
        [kind |-> "lit", pat |-> <<"\\", "p", "m">>, pre |-> <<"<pm>">>, post |-> <<>>],
        [kind |-> "lit", pat |-> <<"\\", "t", "o">>, pre |-> <<"<to>">>, post |-> <<>>],
        [kind |-> "lit", pat |-> <<"\\", "i", "n", "f", "t", "y">>, pre |-> <<"<infty>">>, post |-> <<>>],
        [kind |-> "lit", pat |-> <<"\\", "s", "u", "m">>, pre |-> <<"<Sigma>">>, post |-> <<>>],
        [kind |-> "lit", pat |-> <<"\\", "p", "r", "o", "d">>, pre |-> <<"<Pi>">>, post |-> <<>>],
        [kind |-> "lit", pat |-> <<"\\", "i", "n", "t">>, pre |-> <<"<int>">>, post |-> <<>>],
        [kind |-> "lit", pat |-> <<"\\", "s", "q", "r", "t">>, pre |-> <<"<sqrt>">>, post |-> <<>>],
        [kind |-> "frac", pat |-> <<"\\", "f", "r", "a", "c", "{">>, pre |-> <<"/">>, post |-> <<>>],
        [kind |-> "group", pat |-> <<"\\", "d", "o", "t", "{">>, pre |-> <<>>, post |-> <<"<dot above>">>],
        [kind |-> "group", pat |-> <<"\\", "d", "d", "o", "t", "{">>, pre |-> <<>>, post |-> <<"<diaeresis>">>],
        [kind |-> "group", pat |-> <<"\\", "h", "a", "t", "{">>, pre |-> <<>>, post |-> <<"<circumflex>">>],
        [kind |-> "group", pat |-> <<"\\", "t", "i", "l", "d", "e", "{">>, pre |-> <<>>, post |-> <<"<tilde>">>]
    >>

ApplyRule(s, r) ==
    CASE r.kind = "lit" -> SubLiteral(s, r.pat, r.pre, FALSE)
      [] r.kind = "litb" -> SubLiteral(s, r.pat, r.pre, TRUE)
      [] r.kind = "lazy" -> SubGroup(s, r.pat, r.pre, r.post, FALSE, FALSE)
      [] r.kind = "group" -> SubGroup(s, r.pat, r.pre, r.post, TRUE, TRUE)
      [] r.kind = "frac" -> SubFrac(s, r.pat, r.pre)

\* Lines 225-226: the rules applied one after the other.
RECURSIVE ApplyRules(_, _)
ApplyRules(s, i) ==
    IF i > Len(Replacements) THEN s
    ELSE LET t == ApplyRule(s, Replacements[i]) IN
         IF t = s THEN ApplyRules(s, i + 1) ELSE ApplyRules(t, i + 1)

\* str.strip()
RECURSIVE StripLeft(_)
StripLeft(s) == IF s # <<>> /\ Head(s) \in Whitespace THEN StripLeft(Tail(s)) ELSE s
RECURSIVE StripRight(_)
StripRight(s) ==
    IF s # <<>> /\ s[Len(s)] \in Whitespace THEN StripRight(SubSeq(s, 1, Len(s) - 1)) ELSE s
Strip(s) == StripRight(StripLeft(s))

\* preprocess_math_text, lines 186-232.
preprocess_math_text(text) ==
    LET table == ApplyRules(text, 1)
        exps == SubGroup(table, <<"^", "{">>, <<"^">>, <<>>, TRUE, TRUE)
        subs == SubGroup(exps, <<"_", "{">>, <<"_">>, <<>>, TRUE, TRUE) IN
    Strip(subs)

\* ----------------------------------------------------- escape_markdown_v2
\* Line 236: escape_chars, in the order the loop of line 238 takes them; the
\* backtick is written "<backtick>".
ESCAPE_CHARS ==
    <<"_", "*", "[", "]", "(", ")", "~", "<backtick>", ">", "#", "+", "-", "=", "|", "{", "}", ".",
      "!", "<", ">">>

\* str.replace(c, rep) for a single character c.
RECURSIVE ReplaceChar(_, _, _)
ReplaceChar(s, c, rep) ==
    IF s = <<>> THEN <<>>
    ELSE (IF Head(s) = c THEN rep ELSE <<Head(s)>>) \o ReplaceChar(Tail(s), c, rep)

\* Lines 238-239: the loop over escape_chars from its i-th character on.
RECURSIVE EscapeFrom(_, _)
EscapeFrom(s, i) ==
    IF i > Len(ESCAPE_CHARS) THEN s
    ELSE LET t == ReplaceChar(s, ESCAPE_CHARS[i], <<"\\", ESCAPE_CHARS[i]>>) IN
         IF t = s THEN EscapeFrom(s, i + 1) ELSE EscapeFrom(t, i + 1)

\* escape_markdown_v2, lines 234-240.
escape_markdown_v2(text) == EscapeFrom(ReplaceChar(text, "\\", <<"\\", "\\">>), 1)

\* Line 303: text[:MAX_MESSAGE_LENGTH]
Truncate(text) ==
    IF Len(text) > MAX_MESSAGE_LENGTH THEN SubSeq(text, 1, MAX_MESSAGE_LENGTH) ELSE text

\* Line 299: send_message sends nothing for a blank text.
Sendable(text) == Strip(text) # <<>>

\* Lines 303-307: the text send_message puts into the payload.
PayloadText(text) == escape_markdown_v2(Truncate(text))

\* The characters of the strings the text functions are applied to.
TextAlphabet == {"^", "{", "}", ">", "\\"}
TextInputs == UNION {[1..n -> TextAlphabet] : n \in 0..MaxTextLen}

\* escape_markdown_v2(textIn) is called.
ApplyEscape ==
    /\ textOp = "none"
    /\ textOp' = "escape"
    /\ textOut' = escape_markdown_v2(textIn)
    /\ UNCHANGED <<now, rateVars, cacheVars, cacheHist, mainVars, loopVars, textIn>>

\* send_message(chat_id, escape_markdown_v2(textIn)) is called, as lines 626-655 do.
ApplySendEscaped ==
    /\ textOp = "none"
    /\ Sendable(escape_markdown_v2(textIn))
    /\ textOp' = "send"
    /\ textOut' = PayloadText(escape_markdown_v2(textIn))
    /\ UNCHANGED <<now, rateVars, cacheVars, cacheHist, mainVars, loopVars, textIn>>

\* preprocess_math_text(textIn) is called.
ApplyPreprocess ==
    /\ textOp = "none"
    /\ textOp' = "preprocess"
    /\ textOut' = preprocess_math_text(textIn)
    /\ UNCHANGED <<now, rateVars, cacheVars, cacheHist, mainVars, loopVars, textIn>>

IdleThread == [pc |-> "idle", fd |-> 0, keys |-> {}, off |-> 0]

\* The inodes a name or an open file still refers to.
Live(nm, th, ino) ==
    [i \in {i \in DOMAIN ino : (\E n \in DOMAIN nm : nm[n] = i) \/ (\E t \in Threads : th[t].fd = i)}
        |-> ino[i]]

FreshInode(ino) == SetMin({i \in 1..(Cardinality(DOMAIN ino) + 1) : i \notin DOMAIN ino})

NoGet == [known |-> FALSE, q |-> "q1", result |-> None]
NoSet == [known |-> FALSE, time |-> 0, response |-> <<>>]
NotSaving == [active |-> FALSE, before |-> NoFile, dict |-> <<>>]
NotRecovered == [known |-> FALSE, loaded |-> <<>>, before |-> NoFile, dict |-> <<>>, during |-> FALSE]

\* The records of the get and of the restart just made last one step.
ClearObs == lastGet' = NoGet /\ recovered' = NotRecovered

\* ResponseCache.set(q, r), lines 149-153, up to the call of save_cache.
SetBegin(t, q, r) ==
    /\ thr[t].pc = "idle"
    /\ cache' = CachePut(cache, q, r, now)
    /\ thr' = [thr EXCEPT ![t].pc = "spin"]
    /\ lastSet' = [lastSet EXCEPT ![q] = [known |-> TRUE, time |-> now, response |-> r]]
    /\ saving' = [active |-> TRUE, before |-> FileContent(names, inodes, CACHE_FILE),
                  dict |-> CachePut(cache, q, r, now)]
    /\ nsave' = IF nsave < MaxSaves THEN nsave + 1 ELSE nsave
    /\ ClearObs
    /\ UNCHANGED <<loopVars, textVars, mainVars, now, rateVars, lock, names, inodes>>

\* A direct call of save_cache().
SaveBegin(t) ==
    /\ thr[t].pc = "idle"
    /\ thr' = [thr EXCEPT ![t].pc = "spin"]
    /\ saving' = [active |-> TRUE, before |-> FileContent(names, inodes, CACHE_FILE),
                  dict |-> cache]
    /\ ClearObs
    /\ UNCHANGED <<loopVars, textVars, mainVars, now, rateVars, cache, lock, names, inodes, lastSet, nsave>>

\* Lines 128-129: the loop is left when the flag is read as False.
SaveTestLock(t) ==
    /\ thr[t].pc = "spin"
    /\ ~lock
    /\ thr' = [thr EXCEPT ![t].pc = "acquire"]
    /\ ClearObs
    /\ UNCHANGED <<loopVars, textVars, mainVars, now, rateVars, cache, lock, names, inodes, lastSet, saving, nsave>>

\* Line 130: self.lock = True
SaveAcquire(t) ==
    /\ thr[t].pc = "acquire"
    /\ lock' = TRUE
    /\ thr' = [thr EXCEPT ![t].pc = "open"]
    /\ ClearObs
    /\ UNCHANGED <<loopVars, textVars, mainVars, now, rateVars, cache, names, inodes, lastSet, saving, nsave>>

\* Line 133: open(temp_file, 'w') creates the file or truncates it.
SaveOpen(t) ==
    LET tmp == TempFileName(CACHE_FILE)
        id == IF tmp \in DOMAIN names THEN names[tmp] ELSE FreshInode(inodes) IN
    /\ thr[t].pc = "open"
    /\ names' = [n \in DOMAIN names \cup {tmp} |-> IF n = tmp THEN id ELSE names[n]]
    /\ inodes' = [i \in DOMAIN inodes \cup {id} |-> IF i = id THEN <<>> ELSE inodes[i]]
    /\ thr' = [thr EXCEPT ![t] = [pc |-> "dump", fd |-> id, keys |-> DOMAIN cache, off |-> 0]]
    /\ ClearObs
    /\ UNCHANGED <<loopVars, textVars, mainVars, now, rateVars, cache, lock, lastSet, saving, nsave>>

\* Line 134: json.dump writes the next chunk of the dict; the dict having
\* changed size under the iteration raises, and the with statement closes the file.
SaveWrite(t) ==
    LET chunks == Serialize(cache)
        resized == DOMAIN cache # thr[t].keys
        last == thr[t].off + 1 = Len(chunks) IN
    /\ thr[t].pc = "dump"
    /\ thr' = IF resized THEN [thr EXCEPT ![t] = [IdleThread EXCEPT !.pc = "release"]]
              ELSE IF last THEN [thr EXCEPT ![t] = [IdleThread EXCEPT !.pc = "replace"]]
              ELSE [thr EXCEPT ![t].off = @ + 1]
    /\ inodes' = IF resized THEN Live(names, thr', inodes)
                 ELSE Live(names, thr',
                           [inodes EXCEPT ![thr[t].fd] = WriteAt(@, thr[t].off, chunks[thr[t].off + 1])])
    /\ ClearObs
    /\ UNCHANGED <<loopVars, textVars, mainVars, now, rateVars, cache, lock, names, lastSet, saving, nsave>>

\* Line 135: os.replace(temp_file, self.cache_file); it raises when the
\* temporary file is no longer there.
SaveReplace(t) ==
    LET tmp == TempFileName(CACHE_FILE) IN
    /\ thr[t].pc = "replace"
    /\ thr' = [thr EXCEPT ![t].pc = "release"]
    /\ IF tmp \in DOMAIN names
       THEN /\ names' = [n \in (DOMAIN names \ {tmp}) \cup {CACHE_FILE} |->
                            IF n = CACHE_FILE THEN names[tmp] ELSE names[n]]
            /\ inodes' = Live(names', thr', inodes)
       ELSE UNCHANGED <<names, inodes>>
    /\ ClearObs
    /\ UNCHANGED <<loopVars, textVars, mainVars, now, rateVars, cache, lock, lastSet, saving, nsave>>

\* Lines 136-137: an I/O error in open, json.dump or os.replace is logged.
SaveIOError(t) ==
    /\ thr[t].pc \in {"open", "dump", "replace"}
    /\ thr' = [thr EXCEPT ![t] = [IdleThread EXCEPT !.pc = "release"]]
    /\ inodes' = Live(names, thr', inodes)
    /\ ClearObs
    /\ UNCHANGED <<loopVars, textVars, mainVars, now, rateVars, cache, lock, names, lastSet, saving, nsave>>

\* save_cache returning with the flag left as it is.
SaveReleaseKeepsFlag(t) ==
    /\ thr[t].pc = "release"
    /\ thr' = [thr EXCEPT ![t].pc = "idle"]
    /\ saving' = NotSaving
    /\ ClearObs
    /\ UNCHANGED <<loopVars, textVars, mainVars, now, rateVars, cache, lock, names, inodes, lastSet, nsave>>

\* Lines 138-139: finally: self.lock = False, and save_cache returns.
SaveRelease(t) ==
    /\ thr[t].pc = "release"
    /\ lock' = FALSE
    /\ thr' = [thr EXCEPT ![t].pc = "idle"]
    /\ saving' = NotSaving
    /\ ClearObs
    /\ UNCHANGED <<loopVars, textVars, mainVars, now, rateVars, cache, names, inodes, lastSet, nsave>>

\* ResponseCache.set(q, r), lines 148-154, with save_cache run to its end by
\* the only thread that uses the cache: the dict, the directory and the files
\* afterwards. With ok false an I/O error ends save_cache before os.replace.
SetResult(c0, nm0, ino0, q, r, t, ok) ==
    LET c == CachePut(c0, q, r, t)
        tmp == TempFileName(CACHE_FILE)
        id == IF tmp \in DOMAIN nm0 THEN nm0[tmp] ELSE FreshInode(ino0)
        nm == [n \in (DOMAIN nm0 \ {tmp}) \cup {CACHE_FILE} |->
                  IF n = CACHE_FILE THEN id ELSE nm0[n]]
        ino == [i \in DOMAIN ino0 \cup {id} |-> IF i = id THEN Serialize(c) ELSE ino0[i]] IN
    [cache |-> c,
     names |-> IF ok THEN nm ELSE nm0,
     inodes |-> IF ok THEN [i \in {nm[n] : n \in DOMAIN nm} |-> ino[i]] ELSE ino0]

\* A call of response_cache.set(q, r); ok tells whether the write and the
\* replace went through.
SetCall(q, r, ok) ==
    LET res == SetResult(cache, names, inodes, q, r, now, ok) IN
    /\ \A t \in Threads : thr[t].pc = "idle"
    /\ cache' = res.cache
    /\ names' = res.names
    /\ inodes' = res.inodes
    /\ lastSet' = [lastSet EXCEPT ![q] = [known |-> TRUE, time |-> now, response |-> r]]
    /\ ClearObs
    /\ UNCHANGED <<loopVars, textVars, mainVars, now, rateVars, lock, thr, saving, nsave>>

\* response_cache.get(q), called while no set is under way in the calling thread.
GetCall(t, q) ==
    /\ thr[t].pc = "idle"
    /\ lastGet' = [known |-> TRUE, q |-> q, result |-> CacheGet(cache, q, now)]
    /\ recovered' = NotRecovered
    /\ UNCHANGED <<loopVars, textVars, mainVars, now, rateVars, cacheVars, lastSet, saving, nsave>>

\* The clock moves on.
CacheTick(d) ==
    /\ now + d <= MaxCacheTime
    /\ now' = now + d
    /\ ClearObs
    /\ UNCHANGED <<loopVars, textVars, mainVars, rateVars, cacheVars, lastSet, saving, nsave>>

\* The process dies and is started again: open files are closed, the directory
\* stays as it is, and ResponseCache.__init__ (lines 110-112) loads the cache.
CrashRestart ==
    /\ thr' = [t \in Threads |-> IdleThread]
    /\ inodes' = Live(names, thr', inodes)
    /\ cache' = LoadCache(names, inodes, now)
    /\ lock' = FALSE
    /\ lastSet' = [q \in Questions |-> NoSet]
    /\ lastGet' = NoGet
    /\ saving' = NotSaving
    /\ recovered' = [known |-> TRUE, loaded |-> LoadCache(names, inodes, now),
                     before |-> saving.before, dict |-> saving.dict, during |-> saving.active]
    /\ UNCHANGED <<loopVars, textVars, mainVars, now, rateVars, names, nsave>>

\* ------------------------------------------------------ process_messages
\* offset = None and offset = 0 send the same request (line 275); both are 0 here.
NoOffset == 0

\* A cursor that stays on the update just taken.
NextOffsetSame(update_id) == update_id

\* Line 597: offset = update["update_id"] + 1
NextOffset(update_id) == update_id + 1

NoUpdate == [id |-> 0, kind |-> "none", user |-> 0, text |-> ""]

\* The loop is not running: process_math_question is called directly.
DirectLoop ==
    [pc |-> "direct", offset |-> NoOffset, batch |-> <<>>, cur |-> NoUpdate, sent |-> 0,
     fails |-> 0]

\* Lines 596, 652 and 655: back to the for statement, or to the next poll when
\* the batch is used up.
AfterUpdate(batch) == IF batch = <<>> THEN "poll" ELSE "for"

InitDirect ==
    /\ loop = DirectLoop
    /\ server = <<>>
    /\ handled = <<>>
    /\ textOp = "none"
    /\ textIn = <<>>
    /\ textOut = <<>>

\* -------------------------------------------------- the loop of line 588
\* The texts of the messages: the commands, one of them unknown, and a question.
CommandTexts == {"/start", "/help", "/about", "/examples", "/foo"}
MessageTexts == CommandTexts \cup MainQuestions

\* Line 613: text.startswith("/")
IsCommand(text) == text \in CommandTexts

\* The canned messages, each cut down to its title: lines 615, 627, 637, 520
\* and 650.
WelcomeMsg ==
    <<"*", "M", "a", "t", "h", " ", "G", "e", "n", "i", "u", "s", " ", "B", "o", "t", "*">>
HelpMsg == <<"*", "H", "e", "l", "p", " ", "M", "e", "n", "u", "*">>
AboutMsg ==
    <<"*", "A", "b", "o", "u", "t", " ", "T", "h", "i", "s", " ", "B", "o", "t", "*">>
ExamplesMsg ==
    <<"*", "A", "l", "g", "e", "b", "r", "a", " ", "E", "x", "a", "m", "p", "l", "e", "s", "*", ":">>
UnknownMsg ==
    <<"U", "n", "k", "n", "o", "w", "n", " ", "c", "o", "m", "m", "a", "n", "d", ".", " ",
      "T", "r", "y", " ", "/", "h", "e", "l", "p">>

\* A command handler that hands send_message an empty text.
CommandReplyBlank(text) == <<>>

\* Lines 614-651: the text the command handler hands to send_message.
CommandReply(text) ==
    CASE text = "/start" -> escape_markdown_v2(WelcomeMsg)
      [] text = "/help" -> escape_markdown_v2(HelpMsg)
      [] text = "/about" -> escape_markdown_v2(AboutMsg)
      [] text = "/examples" -> escape_markdown_v2(ExamplesMsg)
      [] OTHER -> escape_markdown_v2(UnknownMsg)

\* What one update can be: without a message, with a message that lacks the
\* chat, with a message without text, or with a text.
UpdateShapes ==
    {[kind |-> k, text |-> ""] : k \in {"nomessage", "malformed", "blank"}}
        \cup {[kind |-> "text", text |-> t] : t \in MessageTexts}

\* The updates the Bot API holds at the start: ids 1, 2, ... in order.
UpdateSeqs ==
    UNION {{[i \in 1..n |-> [id |-> i, kind |-> f[i].kind, user |-> 1, text |-> f[i].text]] :
               f \in [1..n -> UpdateShapes]} : n \in 0..MaxUpdates}

\* getUpdates(offset): the updates with an id of at least offset, in order;
\* those below it are confirmed and gone.
Deliver(updates, offset) == SelectSeq(updates, LAMBDA u : u.id >= offset)

\* A task submitted by process_math_question has not finished.
InFlight == wrk.pc \notin {"none", "done"} \/ req.img = "run" \/ req.pdf = "run"

\* Lines 590-594 with get_updates, lines 273-281: a poll that returns a batch,
\* or fails and leads to the sleep of line 593.
GetUpdates(ok) ==
    /\ loop.pc = "poll"
    /\ IF ok
       THEN /\ server' = Deliver(server, loop.offset)
            /\ loop' = [loop EXCEPT !.batch = server', !.pc = AfterUpdate(server')]
       ELSE /\ loop.fails < MaxPollFails
            /\ loop' = [loop EXCEPT !.pc = "sleep5", !.fails = @ + 1]
            /\ server' = server
    /\ UNCHANGED <<now, rateVars, cacheVars, cacheHist, mainVars, handled, textVars>>

\* Lines 593 and 663: the sleep is over and the loop polls again.
BackoffEnds ==
    /\ loop.pc \in {"sleep5", "sleep10"}
    /\ now' = now + (IF loop.pc = "sleep5" THEN POLL_BACKOFF ELSE ERROR_BACKOFF)
    /\ loop' = [loop EXCEPT !.pc = "poll"]
    /\ UNCHANGED <<rateVars, cacheVars, cacheHist, mainVars, server, handled, textVars>>

\* Lines 596-613: the for statement takes the next update of the batch, moves
\* offset past it and looks at it. A message without chat raises KeyError, which
\* line 661 catches: the rest of the batch is dropped.
TakeUpdate ==
    /\ loop.pc = "for"
    /\ LET upd == Head(loop.batch)
           rest == Tail(loop.batch) IN
       /\ handled' = [handled EXCEPT ![upd.id] = @ + 1]
       /\ loop' = CASE upd.kind = "malformed" ->
                         [loop EXCEPT !.offset = NextOffset(upd.id), !.batch = <<>>,
                                      !.cur = upd, !.sent = 0, !.pc = "sleep10"]
                    [] upd.kind \in {"nomessage", "blank"} ->
                         [loop EXCEPT !.offset = NextOffset(upd.id), !.batch = rest,
                                      !.cur = upd, !.sent = 0, !.pc = AfterUpdate(rest)]
                    [] OTHER ->
                         [loop EXCEPT !.offset = NextOffset(upd.id), !.batch = rest,
                                      !.cur = upd, !.sent = 0,
                                      !.pc = IF IsCommand(upd.text) THEN "command"
                                             ELSE "question"]
    /\ UNCHANGED <<now, rateVars, cacheVars, cacheHist, mainVars, server, textVars>>

\* Lines 613-652: the command is answered with send_message, which sends
\* nothing for a blank text (line 299).
HandleCommand ==
    /\ loop.pc = "command"
    /\ loop' = [loop EXCEPT !.pc = AfterUpdate(loop.batch),
                            !.sent = IF Sendable(CommandReply(loop.cur.text)) THEN @ + 1 ELSE @]
    /\ UNCHANGED <<now, rateVars, cacheVars, cacheHist, mainVars, server, handled, textVars>>

\* A KeyboardInterrupt reaches the main thread. Inside a with block of
\* process_math_question that is entered and not yet being left, it first runs
\* executor.shutdown(wait=True); raised while a with block is being left, in the
\* join of the worker, or anywhere else, it goes straight to line 657.
Interrupt ==
    /\ loop.pc \notin {"direct", "stopped"}
    /\ req.pc # "unwinding"
    /\ IF req.pc \in {"waiting", "render"}
       THEN /\ req' = [req EXCEPT !.pc = "unwinding"]
            /\ loop' = loop
       ELSE /\ req' = IF req.pc = "idle" THEN req ELSE [req EXCEPT !.pc = "interrupted"]
            /\ loop' = [loop EXCEPT !.pc = "stopped"]
    /\ UNCHANGED <<now, rateVars, cacheVars, cacheHist, qlog, wrk, eff, snap, prevCall, nreq,
                   server, handled, textVars>>

\* The shutdown of the with block returns, the KeyboardInterrupt goes on to
\* line 657, and the loop is left at line 660.
UnwindJoined ==
    /\ req.pc = "unwinding"
    /\ ~InFlight
    /\ req' = [req EXCEPT !.pc = "interrupted"]
    /\ loop' = [loop EXCEPT !.pc = "stopped"]
    /\ UNCHANGED <<now, rateVars, cacheVars, cacheHist, qlog, wrk, eff, snap, prevCall, nreq,
                   server, handled, textVars>>

\* ------------------------------------------------- get_gemini_response
\* Python's truth value of a string or None.
Truthy(v) == v # None /\ v # <<>>

\* The test of line 404 passing every text.
HasTextAlways(text) == TRUE

\* Line 404: if response.text
HasText(text) == Truthy(text)

\* The wait of line 410 without the attempt number.
RetryWaitConstant(attempt) == RETRY_DELAY

\* Line 410: wait_time = RETRY_DELAY * (attempt + 1)
RetryWait(attempt) == RETRY_DELAY * (attempt + 1)

\* The test of line 539 never rejecting.
ThrottledNever(ok) == FALSE

\* Line 539: if not rate_limiter.check_rate_limit(...)
Throttled(ok) == ~ok

\* Line 550: not response or len(response.strip()) < 10
Unusable(response) == ~Truthy(response) \/ Len(Strip(response)) < MIN_RESPONSE_LENGTH

\* Where the dispatcher stands while the render tasks run: in the with block
\* of line 554, leaving it with a KeyboardInterrupt, or gone.
RenderingPcs == {"render", "unwinding", "interrupted"}

\* Lines 558-559 passing when one of the two renders has returned.
RendersSucceededEither(img, pdf) == img = "ok" \/ pdf = "ok"

\* Lines 558-559: img_future.result() and pdf_future.result() both return.
RendersSucceeded(img, pdf) == img = "ok" /\ pdf = "ok"

\* Line 569 with the success message in every case.
StatusAlwaysSuccess(success) == "success"

\* Line 569: the status message.
StatusMessage(success) == IF success THEN "success" ELSE "partial"

\* Line 485: the response as the log keeps it.
LogResponse(r) ==
    IF Len(r) > LOG_RESPONSE_LIMIT
    THEN SubSeq(r, 1, LOG_RESPONSE_LIMIT) \o <<".", ".", ".">>
    ELSE r

\* Lines 475-487: the log entry.
LogEntry(u, q, r, t) ==
    [timestamp |-> IsoFormat(t), chat_id |-> u, user |-> u, question |-> q,
     response |-> LogResponse(r), response_length |-> Len(r)]

EmptyLog == [exists |-> FALSE, valid |-> TRUE, records |-> <<>>]

\* save_question_to_json, lines 489-501, on the log file lg. how tells what
\* the file system does: "ok", "readfail" (the file is there and reading it
\* raises), "openfail" (opening it for writing raises), "writefail" (json.dump
\* raises after the file was truncated).
LogAppend(lg, entry, how) ==
    IF lg.exists /\ (how = "readfail" \/ ~lg.valid) THEN lg
    ELSE IF how = "openfail" THEN lg
    ELSE IF how = "writefail" THEN [exists |-> TRUE, valid |-> FALSE, records |-> <<>>]
    ELSE [exists |-> TRUE, valid |-> TRUE, records |-> Append(lg.records, entry)]

LogOutcomes == {"ok", "readfail", "openfail", "writefail"}

NoOutcome == [raises |-> FALSE, text |-> <<>>]
IdleReq ==
    [pc |-> "idle", user |-> 0, q |-> "q1", start |-> 0, deadline |-> 0, timedOut |-> FALSE,
     response |-> None, img |-> "none", pdf |-> "none", success |-> TRUE, msg |-> "none"]
NoWorker == [pc |-> "none", attempt |-> 0, wakeAt |-> 0, pending |-> NoOutcome, result |-> None]
NoEffects ==
    [lookups |-> 0, calls |-> <<>>, sets |-> 0, renders |-> 0, sends |-> <<>>, logs |-> <<>>]
NoSnap == [cache |-> <<>>, names |-> <<>>, inodes |-> <<>>, qlog |-> EmptyLog]
NoPrev == [known |-> FALSE, q |-> "q1", result |-> None, text |-> FALSE]

\* How a generate_content call ended.
CallOutcome(out) ==
    IF out.raises THEN "raise" ELSE IF out.text = <<>> THEN "empty" ELSE "text"

\* The outcome of the latest generate_content call of the request, once it ended.
EndCall(calls, what) ==
    [calls EXCEPT ![Len(calls)] = [@ EXCEPT !.end = now, !.outcome = what]]

\* process_math_question, lines 537-548: the admission check, and on admission
\* the typing notice and the submission of get_gemini_response to the worker.
ProcessMathQuestion(u, q) ==
    LET res == CheckRateLimit(user_requests, u, now) IN
    /\ req.pc = "idle"
    /\ nreq < MaxRequests
    /\ \/ loop.pc = "direct" /\ now <= MaxMainTime
       \/ loop.pc = "question" /\ loop.cur.user = u /\ loop.cur.text = q
    /\ nreq' = nreq + 1
    /\ user_requests' = res.ur
    /\ RecordCheck(u, res)
    /\ eff' = NoEffects
    /\ snap' = [cache |-> cache, names |-> names, inodes |-> inodes, qlog |-> qlog]
    /\ IF Throttled(res.ok)
       THEN /\ req' = [IdleReq EXCEPT !.pc = "returned", !.user = u, !.q = q, !.start = now,
                                      !.msg = "throttle"]
            /\ wrk' = NoWorker
       ELSE /\ req' = [IdleReq EXCEPT !.pc = "waiting", !.user = u, !.q = q, !.start = now,
                                      !.deadline = now + MODEL_TIMEOUT]
            /\ wrk' = [NoWorker EXCEPT !.pc = "lookup"]
    /\ UNCHANGED <<loopVars, textVars, now, cacheVars, cacheHist, qlog, prevCall>>

\* get_gemini_response, lines 375-378: the cache lookup.
WorkerCacheLookup ==
    LET cached == CacheGet(cache, req.q, now) IN
    /\ wrk.pc = "lookup"
    /\ eff' = [eff EXCEPT !.lookups = @ + 1]
    /\ wrk' = IF Truthy(cached)
              THEN [wrk EXCEPT !.pc = "done", !.result = cached]
              ELSE [wrk EXCEPT !.pc = "attempt", !.attempt = 0]
    /\ UNCHANGED <<loopVars, textVars, now, rateVars, cacheVars, cacheHist, qlog, req, snap, prevCall, nreq>>

\* Line 403: gemini_model.generate_content is called; it will take d seconds
\* and end as out says.
GenerateContent(out, d) ==
    /\ wrk.pc = "attempt"
    /\ wrk.attempt < MAX_RETRIES
    /\ wrk' = [wrk EXCEPT !.pc = "incall", !.wakeAt = now + d, !.pending = out]
    /\ eff' = [eff EXCEPT !.calls = Append(@, [start |-> now, end |-> -1, outcome |-> "pending"])]
    /\ UNCHANGED <<loopVars, textVars, now, rateVars, cacheVars, cacheHist, qlog, req, snap, prevCall, nreq>>

\* Lines 404-417: the call ends. A text is normalized, cached and returned; an
\* empty text goes on to the next attempt; an exception sleeps and retries, or
\* returns None after the last attempt.
GenerateContentReturns(saveOk) ==
    /\ wrk.pc = "incall"
    /\ now = wrk.wakeAt
    /\ \E out \in {wrk.pending}, more \in {wrk.attempt < MAX_RETRIES - 1} :
        IF out.raises
        THEN /\ wrk' = IF more
                       THEN [wrk EXCEPT !.pc = "sleep", !.wakeAt = now + RetryWait(wrk.attempt),
                                        !.pending = NoOutcome]
                       ELSE [wrk EXCEPT !.pc = "done", !.result = None, !.pending = NoOutcome]
             /\ eff' = [eff EXCEPT !.calls = EndCall(@, CallOutcome(out))]
             /\ UNCHANGED <<cacheVars, lastSet>>
        ELSE IF HasText(out.text)
        THEN \E processed \in {preprocess_math_text(out.text)} :
             \E stored \in {SetResult(cache, names, inodes, req.q, processed, now, saveOk)} :
                /\ wrk' = [wrk EXCEPT !.pc = "done", !.result = Strip(processed),
                                      !.pending = NoOutcome]
                /\ eff' = [eff EXCEPT !.calls = EndCall(@, CallOutcome(out)), !.sets = @ + 1]
                /\ cache' = stored.cache
                /\ names' = stored.names
                /\ inodes' = stored.inodes
                /\ lastSet' = [lastSet EXCEPT ![req.q] =
                                  [known |-> TRUE, time |-> now, response |-> processed]]
                /\ UNCHANGED <<lock, thr>>
        ELSE /\ wrk' = IF more
                       THEN [wrk EXCEPT !.pc = "attempt", !.attempt = @ + 1,
                                        !.pending = NoOutcome]
                       ELSE [wrk EXCEPT !.pc = "done", !.result = None, !.pending = NoOutcome]
             /\ eff' = [eff EXCEPT !.calls = EndCall(@, CallOutcome(out))]
             /\ UNCHANGED <<cacheVars, lastSet>>
    /\ UNCHANGED <<loopVars, textVars, now, rateVars, lastGet, saving, recovered, nsave, qlog, req, snap,
                   prevCall, nreq>>

\* Lines 412-413: the sleep is over, the loop takes up the next attempt.
RetrySleepEnds ==
    /\ wrk.pc = "sleep"
    /\ now = wrk.wakeAt
    /\ wrk' = [wrk EXCEPT !.pc = "attempt", !.attempt = @ + 1]
    /\ UNCHANGED <<loopVars, textVars, now, rateVars, cacheVars, cacheHist, qlog, req, eff, snap, prevCall, nreq>>

\* Time passes while the worker is in generate_content or asleep: up to the end
\* of that, or to the dispatcher's deadline when that comes first.
Advance ==
    /\ wrk.pc \in {"incall", "sleep"}
    /\ wrk.wakeAt > now
    /\ ~(req.pc = "waiting" /\ now = req.deadline)
    /\ now' = IF req.pc = "waiting" /\ req.deadline < wrk.wakeAt THEN req.deadline ELSE wrk.wakeAt
    /\ UNCHANGED <<loopVars, textVars, rateVars, cacheVars, cacheHist, mainVars>>

\* The record of the get_gemini_response call that just ended.
ThisCall ==
    [known |-> TRUE, q |-> req.q, result |-> wrk.result,
     text |-> (eff.calls # <<>> /\ eff.calls[Len(eff.calls)].outcome = "text")]

\* Lines 548-551: future.result returns in time, the executor is left, and the
\* response is tested.
FutureResult ==
    /\ req.pc = "waiting"
    /\ wrk.pc = "done"
    /\ prevCall' = ThisCall
    /\ wrk' = NoWorker
    /\ IF Unusable(wrk.result)
       THEN /\ req' = [req EXCEPT !.pc = "returned", !.response = wrk.result, !.msg = "couldnt"]
            /\ eff' = eff
       ELSE /\ req' = [req EXCEPT !.pc = "render", !.response = wrk.result,
                                  !.img = "run", !.pdf = "run"]
            /\ eff' = [eff EXCEPT !.renders = 2]
    /\ UNCHANGED <<loopVars, textVars, now, rateVars, cacheVars, cacheHist, qlog, snap, nreq>>

\* Line 548: future.result(timeout=60) raises; leaving the with block (line
\* 546) calls executor.shutdown(wait=True).
FutureTimeout ==
    /\ req.pc = "waiting"
    /\ now = req.deadline
    /\ wrk.pc # "done"
    /\ req' = [req EXCEPT !.pc = "joining", !.timedOut = TRUE]
    /\ UNCHANGED <<loopVars, textVars, now, rateVars, cacheVars, cacheHist, qlog, wrk, eff, snap, prevCall, nreq>>

\* A shutdown that does not wait: the timeout error is caught at once and the
\* worker runs on.
ExecutorNotJoined ==
    /\ req.pc = "joining"
    /\ req' = [req EXCEPT !.pc = "returned", !.msg = "error"]
    /\ UNCHANGED <<loopVars, textVars, now, rateVars, cacheVars, cacheHist, qlog, wrk, eff, snap,
                   prevCall, nreq>>

\* The shutdown returns once the worker has finished; the timeout error is
\* caught at line 576.
ExecutorJoined ==
    /\ req.pc = "joining"
    /\ wrk.pc = "done"
    /\ prevCall' = ThisCall
    /\ wrk' = NoWorker
    /\ req' = [req EXCEPT !.pc = "returned", !.msg = "error"]
    /\ UNCHANGED <<loopVars, textVars, now, rateVars, cacheVars, cacheHist, qlog, eff, snap, nreq>>

\* Lines 555 and 419-450: render_math_to_image returns or raises.
RenderImage(ok) ==
    /\ req.pc \in RenderingPcs
    /\ req.img = "run"
    /\ req' = [req EXCEPT !.img = IF ok THEN "ok" ELSE "raised"]
    /\ UNCHANGED <<loopVars, textVars, now, rateVars, cacheVars, cacheHist, qlog, wrk, eff, snap, prevCall, nreq>>

\* Lines 556 and 452-471: render_math_to_pdf returns or raises.
RenderPdf(ok) ==
    /\ req.pc \in RenderingPcs
    /\ req.pdf = "run"
    /\ req' = [req EXCEPT !.pdf = IF ok THEN "ok" ELSE "raised"]
    /\ UNCHANGED <<loopVars, textVars, now, rateVars, cacheVars, cacheHist, qlog, wrk, eff, snap, prevCall, nreq>>

\* Lines 558-559: both results are taken and the executor is left.
RendersJoined ==
    /\ req.pc = "render"
    /\ req.img # "run" /\ req.pdf # "run"
    /\ req' = IF RendersSucceeded(req.img, req.pdf)
              THEN [req EXCEPT !.pc = "send_image"]
              ELSE [req EXCEPT !.pc = "returned", !.msg = "error"]
    /\ UNCHANGED <<loopVars, textVars, now, rateVars, cacheVars, cacheHist, qlog, wrk, eff, snap, prevCall, nreq>>

\* Lines 562-564: send_image.
SendImage(ok) ==
    /\ req.pc = "send_image"
    /\ req' = [req EXCEPT !.pc = "send_pdf", !.success = ok]
    /\ eff' = [eff EXCEPT !.sends = Append(@, ok)]
    /\ UNCHANGED <<loopVars, textVars, now, rateVars, cacheVars, cacheHist, qlog, wrk, snap, prevCall, nreq>>

\* Lines 565-566: send_pdf.
SendPdf(ok) ==
    /\ req.pc = "send_pdf"
    /\ req' = [req EXCEPT !.pc = "log", !.success = @ /\ ok]
    /\ eff' = [eff EXCEPT !.sends = Append(@, ok)]
    /\ UNCHANGED <<loopVars, textVars, now, rateVars, cacheVars, cacheHist, qlog, wrk, snap, prevCall, nreq>>

\* Lines 568-574: the status message, the log entry and the return.
SaveQuestionToJson(how) ==
    /\ req.pc = "log"
    /\ qlog' = LogAppend(qlog, LogEntry(req.user, req.q, req.response, now), how)
    /\ eff' = [eff EXCEPT !.logs = Append(@, how)]
    /\ req' = [req EXCEPT !.pc = "returned", !.msg = StatusMessage(req.success)]
    /\ UNCHANGED <<loopVars, textVars, now, rateVars, cacheVars, cacheHist, wrk, snap, prevCall, nreq>>

\* process_messages, lines 654-655: the status message is sent and the loop
\* goes on to the next update.
SendStatus ==
    /\ req.pc = "returned"
    /\ req' = IdleReq
    /\ eff' = NoEffects
    /\ snap' = NoSnap
    /\ lastCheck' = NoCheck
    /\ loop' = IF loop.pc = "question"
               THEN [loop EXCEPT !.pc = AfterUpdate(loop.batch), !.sent = @ + 1]
               ELSE loop
    /\ UNCHANGED <<server, handled, textVars, now, user_requests, admitLog, everRejected, cacheVars, cacheHist, qlog,
                   wrk, prevCall, nreq>>

InitMain ==
    /\ qlog = EmptyLog
    /\ req = IdleReq
    /\ wrk = NoWorker
    /\ eff = NoEffects
    /\ snap = NoSnap
    /\ prevCall = NoPrev
    /\ nreq = 0

InitCache ==
    /\ cache = <<>>
    /\ lock = FALSE
    /\ names = <<>>
    /\ inodes = <<>>
    /\ thr = [t \in Threads |-> IdleThread]
    /\ lastSet = [q \in Questions |-> NoSet]
    /\ lastGet = NoGet
    /\ saving = NotSaving
    /\ recovered = NotRecovered
    /\ nsave = 0

\* ------------------------------------------------------- specifications
Init == InitRate /\ InitCache /\ InitMain /\ InitDirect

NextRate ==
    \/ \E u \in Users : RateCall(u)
    \/ \E d \in RateTickSteps : RateTick(d)

SpecRate == Init /\ [][NextRate]_vars

\* The text functions applied to every string of the bounded set.
InitText ==
    /\ InitRate /\ InitCache /\ InitMain
    /\ loop = DirectLoop
    /\ server = <<>>
    /\ handled = <<>>
    /\ textOp = "none"
    /\ textIn \in TextInputs
    /\ textOut = <<>>

NextText ==
    \/ ApplyEscape
    \/ ApplySendEscaped
    \/ ApplyPreprocess

SpecText == InitText /\ [][NextText]_vars

\* process_messages starts: offset is None, and the Bot API holds some updates.
InitLoop ==
    /\ InitRate /\ InitCache /\ InitMain
    /\ server \in UpdateSeqs
    /\ handled = [i \in 1..Len(server) |-> 0]
    /\ loop = [DirectLoop EXCEPT !.pc = "poll"]
    /\ textOp = "none"
    /\ textIn = <<>>
    /\ textOut = <<>>

\* What the backend does while the loop runs.
LoopOutcomes ==
    {[raises |-> TRUE, text |-> <<>>], [raises |-> FALSE, text |-> <<>>],
     [raises |-> FALSE, text |-> TextGood]}
LoopDurations == {30}

\* process_messages with the questions handled inside it.
NextLoop ==
    \/ \E ok \in BOOLEAN : GetUpdates(ok)
    \/ BackoffEnds
    \/ TakeUpdate
    \/ HandleCommand
    \/ Interrupt
    \/ UnwindJoined
    \/ \E u \in MainUsers, q \in MainQuestions : ProcessMathQuestion(u, q)
    \/ WorkerCacheLookup
    \/ \E out \in LoopOutcomes, d \in LoopDurations : GenerateContent(out, d)
    \/ GenerateContentReturns(TRUE)
    \/ RetrySleepEnds
    \/ Advance
    \/ FutureResult
    \/ FutureTimeout
    \/ ExecutorJoined
    \/ \E ok \in BOOLEAN : RenderImage(ok)
    \/ RenderPdf(TRUE)
    \/ RendersJoined
    \/ SendImage(TRUE)
    \/ \E ok \in BOOLEAN : SendPdf(ok)
    \/ SaveQuestionToJson("ok")
    \/ SendStatus

SpecLoop == InitLoop /\ [][NextLoop]_vars

\* The dispatcher handles one question after the other.
Next ==
    \/ \E u \in MainUsers, q \in MainQuestions : ProcessMathQuestion(u, q)
    \/ WorkerCacheLookup
    \/ \E out \in BackendOutcomes, d \in CallDurations : GenerateContent(out, d)
    \/ \E saveOk \in BOOLEAN : GenerateContentReturns(saveOk)
    \/ RetrySleepEnds
    \/ Advance
    \/ FutureResult
    \/ FutureTimeout
    \/ ExecutorJoined
    \/ \E ok \in BOOLEAN : RenderImage(ok)
    \/ \E ok \in BOOLEAN : RenderPdf(ok)
    \/ RendersJoined
    \/ \E ok \in BOOLEAN : SendImage(ok)
    \/ \E ok \in BOOLEAN : SendPdf(ok)
    \/ \E how \in LogOutcomes : SaveQuestionToJson(how)
    \/ SendStatus

Spec == Init /\ [][Next]_vars

\* One thread uses the cache, as the dispatcher makes it: set, get, the clock
\* and a restart of the process between two calls.
NextCache ==
    \/ \E q \in Questions, r \in CacheTexts, ok \in BOOLEAN : SetCall(q, r, ok)
    \/ \E q \in Questions : GetCall(1, q)
    \/ \E d \in CacheTickSteps : CacheTick(d)
    \/ CrashRestart

SpecCache == Init /\ [][NextCache]_vars

\* One thread persists the cache step by step, and the process may die at any
\* point and be started again.
NextCrash ==
    \/ \E q \in Questions, r \in CacheTexts : SetBegin(1, q, r)
    \/ SaveTestLock(1)
    \/ SaveAcquire(1)
    \/ SaveOpen(1)
    \/ SaveWrite(1)
    \/ SaveReplace(1)
    \/ SaveIOError(1)
    \/ SaveRelease(1)
    \/ CacheTick(CACHE_EXPIRY_DAYS * SECONDS_PER_DAY)
    \/ CrashRestart

SpecCrash == Init /\ [][NextCrash]_vars

\* Several threads call set and save_cache at once.
NextLock ==
    \E t \in Threads :
        \/ \E q \in Questions : SetBegin(t, q, <<"k">>)
        \/ SaveBegin(t)
        \/ SaveTestLock(t)
        \/ SaveAcquire(t)
        \/ SaveOpen(t)
        \/ SaveWrite(t)
        \/ SaveReplace(t)
        \/ SaveIOError(t)
        \/ SaveRelease(t)

SpecLock == Init /\ [][NextLock]_vars

\* The steps of save_cache that thread t takes by itself once it is called:
\* lines 128-139 without the I/O errors, which may or may not happen.
SaveProgress(t) ==
    \/ SaveTestLock(t)
    \/ SaveAcquire(t)
    \/ SaveOpen(t)
    \/ SaveWrite(t)
    \/ SaveReplace(t)
    \/ SaveRelease(t)

\* Several threads call set, MaxSaves times in all, and any save may meet an
\* I/O error.
NextPersist ==
    \E t \in Threads :
        \/ \E q \in Questions, r \in CacheTexts : nsave < MaxSaves /\ SetBegin(t, q, r)
        \/ SaveProgress(t)
        \/ SaveIOError(t)

\* Every thread that is inside save_cache keeps running.
SpecPersist ==
    Init /\ [][NextPersist]_vars /\ \A t \in Threads : WF_vars(SaveProgress(t))

\* Number of entries of log that lie in the 60 seconds up to and including t.
InWindow(log, t) == Cardinality({j \in 1..Len(log) : t - log[j] < RATE_WINDOW /\ log[j] <= t})

\* C1: per user, no rolling 60-second window holds more than RATE_LIMIT_PER_USER
\* admissions, the stored window never holds more than RATE_LIMIT_PER_USER
\* instants, and a call made while RATE_LIMIT_PER_USER admissions lie within the
\* preceding 60 seconds returns False.
C1_RateLimitBound ==
    /\ \A u \in Users : \A i \in 1..Len(admitLog[u]) :
           InWindow(admitLog[u], admitLog[u][i]) <= RATE_LIMIT_PER_USER
    /\ \A u \in DOMAIN user_requests : Len(user_requests[u]) <= RATE_LIMIT_PER_USER
    /\ (lastCheck.known /\ InWindow(lastCheck.before, now) >= RATE_LIMIT_PER_USER)
           => ~lastCheck.result

\* C1 witness: a call was rejected with a full window stored.
C1_Witness ==
    /\ lastCheck.known /\ ~lastCheck.result
    /\ InWindow(lastCheck.before, now) = RATE_LIMIT_PER_USER
    /\ Len(user_requests[lastCheck.user]) = RATE_LIMIT_PER_USER

\* C2: a call made when every earlier admission of the user is at least 60
\* seconds old is admitted, whatever was rejected in between.
C2_ResumesAfterWindow ==
    (lastCheck.known /\ InWindow(lastCheck.before, now) = 0) => lastCheck.result

\* C2 witness: a user that was throttled is admitted again when its five
\* admissions are exactly 60 seconds old.
C2_Witness ==
    /\ lastCheck.known /\ lastCheck.result
    /\ lastCheck.user \in everRejected
    /\ Len(lastCheck.before) = RATE_LIMIT_PER_USER
    /\ InWindow(lastCheck.before, now) = 0

\* ------------------------------------------------------------ the cache
ExpiryWindow == CACHE_EXPIRY_DAYS * SECONDS_PER_DAY

\* The age, at the get just made, of the entry the latest set of that question wrote.
AgeAtGet == now - lastSet[lastGet.q].time

GetAfterSet == lastGet.known /\ lastSet[lastGet.q].known

\* C4 as stated: get returns the response set whenever its age does not exceed
\* the expiry window, and None exactly when the age is greater than the window.
C4_AsStated ==
    GetAfterSet =>
        /\ AgeAtGet <= ExpiryWindow => lastGet.result = lastSet[lastGet.q].response
        /\ lastGet.result = None <=> AgeAtGet > ExpiryWindow

\* C4 amended: after set(q, r) at time t, get(q) at time t' returns r whenever
\* t' - t is less than the expiry window of CACHE_EXPIRY_DAYS days, and returns
\* None exactly when t' - t is at least the expiry window.
C4_RoundTrip ==
    GetAfterSet =>
        /\ AgeAtGet < ExpiryWindow => lastGet.result = lastSet[lastGet.q].response
        /\ lastGet.result = None <=> AgeAtGet >= ExpiryWindow

\* C4 witness: a get one second before the entry expires returns the response set.
C4_Witness ==
    /\ GetAfterSet
    /\ AgeAtGet = ExpiryWindow - 1
    /\ lastGet.result = lastSet[lastGet.q].response

\* The threads between self.lock = True and self.lock = False.
Persisting == {t \in Threads : thr[t].pc \in {"open", "dump", "replace", "release"}}

\* C5: at most one thread at a time is between acquiring the lock flag and
\* releasing it.
C5_MutualExclusion == Cardinality(Persisting) <= 1

\* What _load_cache makes of a cache file with the given content.
LoadedFrom(content) ==
    IF content = NoFile THEN <<>> ELSE DropExpired(ParsedDict(content), now)

\* C6: whenever the process may die during save_cache, the cache file holds the
\* complete previous contents or the complete new contents, and _load_cache
\* after the restart returns the entries of one of the two.
C6_AtomicPersist ==
    LET file == FileContent(names, inodes, CACHE_FILE) IN
    /\ file = NoFile \/ WellFormed(file)
    /\ saving.active => file \in {saving.before, Serialize(saving.dict)}
    /\ (recovered.known /\ recovered.during) =>
           recovered.loaded \in {LoadedFrom(recovered.before), DropExpired(recovered.dict, now)}

\* C6 witness: the process died while the temporary file was half written over
\* an existing cache file, and was started again.
C6_Witness ==
    LET tmp == FileContent(names, inodes, TempFileName(CACHE_FILE)) IN
    /\ recovered.known /\ recovered.during
    /\ recovered.before # NoFile
    /\ recovered.before # Serialize(recovered.dict)
    /\ Len(tmp) >= 1 /\ ~WellFormed(tmp)
    /\ recovered.loaded = LoadedFrom(recovered.before)

\* ------------------------------------------------------- the dispatcher
\* The admissions of the asking user that lay in the 60 seconds before the
\* question was asked.
PriorAdmissions == InWindow(lastCheck.before, req.start)

\* What the request has left behind is what it found.
NothingStored ==
    /\ cache = snap.cache
    /\ names = snap.names
    /\ inodes = snap.inodes

\* C3: a question asked by a user with RATE_LIMIT_PER_USER admissions in the
\* preceding 60 seconds is answered with the throttling notice, and from the
\* call to the return there is no cache lookup, no backend invocation, no
\* rendering, no delivery and no log append.
C3_ThrottledNoEffects ==
    (req.pc # "idle" /\ lastCheck.known /\ PriorAdmissions >= RATE_LIMIT_PER_USER)
        => /\ req.pc = "returned"
           /\ req.msg = "throttle"
           /\ wrk = NoWorker
           /\ eff = NoEffects
           /\ NothingStored
           /\ qlog = snap.qlog

\* C3 witness: the sixth question of a user at one instant was turned away.
C3_Witness ==
    /\ req.pc = "returned"
    /\ req.msg = "throttle"
    /\ lastCheck.known /\ ~lastCheck.result
    /\ PriorAdmissions = RATE_LIMIT_PER_USER
    /\ nreq = RATE_LIMIT_PER_USER + 1

\* C7: a get_gemini_response call that follows at once a call for the same
\* question in which the backend produced text invokes the backend not at all
\* and returns what that call returned.
C7_ServedFromCache ==
    (wrk.pc = "done" /\ prevCall.known /\ prevCall.q = req.q /\ prevCall.text)
        => /\ eff.calls = <<>>
           /\ wrk.result = prevCall.result

AllCalls(outcomes) == \A i \in 1..Len(eff.calls) : eff.calls[i].outcome \in outcomes

\* C8: a get_gemini_response call invokes the backend at most MAX_RETRIES times,
\* the invocation after one that raised starts RETRY_DELAY times the number of
\* that invocation later (2 seconds after the first, 4 after the second), no
\* sleep follows the last invocation, and when every invocation raised or gave
\* empty text the call returns None.
C8_BoundedRetries ==
    /\ Len(eff.calls) <= MAX_RETRIES
    /\ \A i \in 1..(Len(eff.calls) - 1) :
           eff.calls[i].outcome = "raise"
               => eff.calls[i + 1].start = eff.calls[i].end + RETRY_DELAY * i
    /\ wrk.pc = "sleep" => Len(eff.calls) < MAX_RETRIES
    /\ (wrk.pc = "done" /\ eff.calls # <<>> /\ AllCalls({"raise", "empty"}))
           => wrk.result = None

\* C8 witness: three invocations raised, 2 and 4 seconds apart, and the call
\* returned None.
C8_Witness ==
    /\ wrk.pc = "done"
    /\ wrk.result = None
    /\ Len(eff.calls) = MAX_RETRIES
    /\ AllCalls({"raise"})
    /\ eff.calls[2].start = eff.calls[1].end + 2
    /\ eff.calls[3].start = eff.calls[2].end + 4

\* The request has returned and the backend gave empty text at each of its
\* invocations.
EmptyEveryAttempt ==
    /\ req.pc = "returned"
    /\ eff.calls # <<>>
    /\ AllCalls({"empty"})

\* C9 as stated: after empty text at every attempt the request returns the
\* "couldn't generate a solution" message, with no cache entry and no log record.
C9_AsStated ==
    EmptyEveryAttempt => req.msg = "couldnt" /\ NothingStored /\ qlog = snap.qlog

\* C9: after empty text at every attempt the request returns the "couldn't
\* generate a solution" message when the attempts ended within the 60 seconds
\* of the dispatcher's timeout and the "an error occurred" message when they
\* did not; either way the cache and its file are as before and no log record
\* is appended.
C9_EmptyEveryAttempt ==
    EmptyEveryAttempt
        => /\ Len(eff.calls) = MAX_RETRIES
           /\ req.msg = IF req.timedOut THEN "error" ELSE "couldnt"
           /\ NothingStored
           /\ qlog = snap.qlog
           /\ eff.sets = 0 /\ eff.logs = <<>>

\* C9 witness: three empty texts within the timeout, answered with the
\* "couldn't generate a solution" message.
C9_Witness ==
    /\ EmptyEveryAttempt
    /\ ~req.timedOut
    /\ req.msg = "couldnt"

\* C10: a request whose model call was not over at the deadline returns at the
\* deadline, 60 seconds after the call was submitted.
C10_ReturnsAtDeadline ==
    (req.pc = "returned" /\ req.timedOut) => now = req.deadline

\* ------------------------------------------------- frame of the rate limiter
\* The window the dict ur holds for v, if any.
WindowOf(ur, v) == IF v \in DOMAIN ur THEN <<ur[v]>> ELSE <<>>

\* C18: after a rejected check_rate_limit call the window of the caller holds
\* exactly its earlier admissions that are less than 60 seconds old, and a call
\* changes the window of no other user.
C18_RejectionNotRecorded ==
    /\ [](lastCheck.known /\ ~lastCheck.result
            => user_requests[lastCheck.user] =
                   SelectSeq(lastCheck.before, LAMBDA x : now - x < RATE_WINDOW))
    /\ [][\A v \in Users :
             (lastCheck'.known /\ lastCheck'.user # v)
                 => WindowOf(user_requests', v) = WindowOf(user_requests, v)]_vars

\* C18 witness: a call was rejected while an admission exactly 60 seconds old
\* had just been dropped from the caller's window, and another user has a window.
C18_Witness ==
    /\ lastCheck.known /\ ~lastCheck.result
    /\ Len(lastCheck.before) > RATE_LIMIT_PER_USER
    /\ Len(user_requests[lastCheck.user]) = RATE_LIMIT_PER_USER
    /\ \E v \in DOMAIN user_requests : v # lastCheck.user /\ user_requests[v] # <<>>

\* ------------------------------------------------------- stale entries
\* The keys of the dict c whose entries have expired at instant t.
Stale(c, t) == {k \in DOMAIN c : ~NotExpired(c[k], t)}

\* The dict the cache file holds.
FileDict(nm, ino) == ParsedDict(FileContent(nm, ino, CACHE_FILE))

\* C19: a get changes nothing in the cache; no step but a restart, where
\* _load_cache runs, takes a key out of the dict; a set whose save goes through
\* writes the whole dict, stale entries included, to the file; and the dict
\* _load_cache returns holds no expired entry.
C19_GetKeepsStale ==
    /\ [][lastGet'.known => cache' = cache]_vars
    /\ [][~recovered'.known => DOMAIN cache \subseteq DOMAIN cache']_vars
    /\ [][(~recovered'.known /\ <<names', inodes'>> # <<names, inodes>>)
             => FileDict(names', inodes') = cache']_vars
    /\ [](recovered.known => Stale(cache, now) = {})

\* C19 witness: a get has just reported an expired entry as not found, the entry
\* is still in the dict, and a set made after it expired has written it to the file.
C19_Witness ==
    /\ lastGet.known
    /\ lastGet.result = None
    /\ HashQuestion(lastGet.q) \in Stale(cache, now)
    /\ CACHE_FILE \in DOMAIN names
    /\ HashQuestion(lastGet.q) \in DOMAIN FileDict(names, inodes)
    /\ \E q \in Questions : lastSet[q].known /\ lastSet[q].time = now /\ q # lastGet.q

\* ------------------------------------------------ delivery and the log
\* The request has gone through both deliveries and returned.
Delivered == req.pc = "returned" /\ req.msg \in {"success", "partial"}

\* The log record of the request under way.
ThisEntry == LogEntry(req.user, req.q, req.response, now)

\* The log as it was when the request began, with the record of the request
\* at its end.
LogWithEntry ==
    [exists |-> TRUE, valid |-> TRUE, records |-> Append(snap.qlog.records, ThisEntry)]

\* The log file could be read and written when save_question_to_json ran.
LogWritable ==
    /\ snap.qlog.exists => snap.qlog.valid /\ eff.logs # <<"readfail">>
    /\ eff.logs \notin {<<"openfail">>, <<"writefail">>}

\* Both deliveries were attempted, and the status message tells whether both
\* went through.
BothAttempted ==
    /\ Len(eff.sends) = 2
    /\ req.msg = "success" <=> eff.sends = <<TRUE, TRUE>>

\* C13 as stated: both deliveries are attempted, the status message is the
\* degraded one when either failed, and in both cases exactly one record has
\* been appended to the log.
C13_AsStated ==
    Delivered => BothAttempted /\ qlog = LogWithEntry

\* C13: both deliveries are attempted, the status message is the degraded one
\* when either failed, and in both cases save_question_to_json is called once;
\* it appends exactly one record when the log file can be read and written, and
\* none when reading or writing it fails.
C13_DeliverBothLogOnce ==
    Delivered
        => /\ BothAttempted
           /\ Len(eff.logs) = 1
           /\ IF LogWritable THEN qlog = LogWithEntry
              ELSE qlog.records = snap.qlog.records \/ qlog.records = <<>>

\* C13 witness: the image was not delivered, the document was, the status is
\* the degraded one and the record is in the log.
C13_Witness ==
    /\ Delivered
    /\ eff.sends = <<FALSE, TRUE>>
    /\ req.msg = "partial"
    /\ qlog = LogWithEntry
    /\ Len(qlog.records) >= 2

IsPrefix(a, b) == Len(a) <= Len(b) /\ SubSeq(b, 1, Len(a)) = a

\* C14: whatever a save_question_to_json call does, the records the log held
\* before are still there afterwards, unchanged and in order, and at most one
\* record has been added at the end.
C14_AppendOnly ==
    [][/\ IsPrefix(qlog.records, qlog'.records)
       /\ Len(qlog'.records) <= Len(qlog.records) + 1]_vars

\* C20: a delivery is under way or done only when both renders have returned;
\* while a render runs nothing has been delivered; and a request in which a
\* render raised returns the error apology with nothing delivered, no log call,
\* the log as it was and each render submitted once.
C20_DeliverAfterRenders ==
    /\ (req.pc \in {"send_image", "send_pdf", "log"} \/ eff.sends # <<>>)
           => req.img = "ok" /\ req.pdf = "ok"
    /\ req.pc = "render" => eff.sends = <<>> /\ eff.logs = <<>>
    /\ (req.pc = "returned" /\ (req.img = "raised" \/ req.pdf = "raised"))
           => /\ req.msg = "error"
              /\ eff.sends = <<>>
              /\ eff.logs = <<>>
              /\ qlog = snap.qlog
              /\ eff.renders = 2

\* C20 witness: the image was rendered, the document render raised, and the
\* request returned the error apology.
C20_Witness ==
    /\ req.pc = "returned"
    /\ req.img = "ok"
    /\ req.pdf = "raised"
    /\ req.msg = "error"

\* ------------------------------------------------------ the text functions
\* The characters MarkdownV2 reserves.
Reserved == {ESCAPE_CHARS[i] : i \in 1..Len(ESCAPE_CHARS)}

\* The number of backslashes that end at position i of s.
RECURSIVE BackslashRun(_, _)
BackslashRun(s, i) == IF i >= 1 /\ s[i] = "\\" THEN 1 + BackslashRun(s, i - 1) ELSE 0

\* C15: in the string escape_markdown_v2 returns, and in the text send_message
\* transmits for a text its caller has escaped already, every reserved character
\* has an odd number of backslashes right before it.
C15_AllEscaped ==
    textOp \in {"escape", "send"}
        => \A i \in 1..Len(textOut) :
               textOut[i] \in Reserved => BackslashRun(textOut, i - 1) % 2 = 1

\* C16: preprocess_math_text applied to its own result returns that result.
C16_Idempotent ==
    textOp = "preprocess" => preprocess_math_text(textOut) = textOut

\* ------------------------------------------------------------- the loop
\* C11: offset never decreases; no update is taken up by the loop more than
\* once; and an update the loop has not taken up yet, be it one that followed a
\* failing update in its batch, is still held by the Bot API at or above offset,
\* so that a later poll delivers it.
C11_CursorAdvances ==
    /\ [][loop'.offset >= loop.offset]_vars
    /\ [](\A i \in DOMAIN handled : handled[i] <= 1)
    /\ [](\A i \in DOMAIN handled :
             handled[i] = 0 => i >= loop.offset /\ \E j \in DOMAIN server : server[j].id = i)
    /\ [](\A i \in DOMAIN handled : handled[i] = 1 => loop.offset > i)

\* C11 witness: the first update of a batch raised (no poll failed and no
\* question was handled, so the clock stands at the sleep of line 663), and the
\* second update of that batch was handled after a later poll.
C11_Witness ==
    /\ DOMAIN handled = {1, 2}
    /\ handled[1] = 1 /\ handled[2] = 1
    /\ loop.cur.id = 2
    /\ loop.cur.kind = "text"
    /\ loop.pc \in {"command", "question"}
    /\ loop.offset = 3
    /\ loop.fails = 0
    /\ nreq = 0
    /\ now = ERROR_BACKOFF

\* C12: when the loop has been left, no task submitted by process_math_question
\* is still running.
C12_NoTaskAtExit == loop.pc = "stopped" => ~InFlight

\* C17: the handling of a command sends one message and leaves the windows of
\* the rate limiter, the cache, its file and the log as they are, with no
\* worker started and no backend invocation.
C17_CommandFrame ==
    [][(loop.pc = "command" /\ loop'.pc \notin {"command", "stopped"})
          => /\ loop'.sent = loop.sent + 1
             /\ loop'.sent = 1
             /\ UNCHANGED <<user_requests, cache, names, inodes, qlog, wrk, eff, req>>]_vars

\* C17 witness: after a question had been admitted, an unknown command has been
\* answered with one message.
C17_Witness ==
    /\ loop.cur.text = "/foo"
    /\ loop.sent = 1
    /\ loop.pc = "poll"
    /\ 1 \in DOMAIN user_requests
    /\ cache # <<>>

\* ------------------------------------------------- errors in save_cache
\* Thread t leaves the try block of save_cache by an exception: it goes on to
\* the finally clause without os.replace having put a file in place.
SaveFails(t) ==
    /\ thr[t].pc \in {"open", "dump", "replace"}
    /\ thr'[t].pc = "release"
    /\ names' = names

\* C21: an error in save_cache leaves the dict as set wrote it, so that get
\* returns the response of the latest set of each question; the thread goes on
\* to release the lock flag and set returns; and every thread that waits for
\* the flag gets past it and sets it, when every thread inside save_cache keeps
\* running and the set calls are finitely many.
C21_ErrorSwallowed ==
    /\ [][\A t \in Threads : SaveFails(t) => cache' = cache /\ lock' = lock]_vars
    /\ [](\A q \in Questions :
             lastSet[q].known => CacheGet(cache, q, now) = lastSet[q].response)
    /\ [][\A t \in Threads :
             (thr[t].pc = "release" /\ thr'[t].pc # "release")
                 => lock' = FALSE /\ thr'[t].pc = "idle"]_vars
    /\ \A t \in Threads : (thr[t].pc = "release") ~> (thr[t].pc = "idle" /\ ~lock)
    /\ \A t \in Threads : (thr[t].pc = "spin") ~> (thr[t].pc = "open" /\ lock)

\* C21 witness: the save of thread 1 failed (set has returned and no cache file
\* was ever put in place), its entry is in the dict, and thread 2 has since
\* set the flag for its own save.
C21_Witness ==
    /\ thr[1].pc = "idle"
    /\ thr[2].pc = "open"
    /\ lock
    /\ nsave = 2
    /\ CACHE_FILE \notin DOMAIN names
    /\ lastSet["q1"].known /\ lastSet["q2"].known
    /\ CacheGet(cache, "q1", now) = lastSet["q1"].response
    /\ CacheGet(cache, "q2", now) = <<"k">>

\* ------------------------------------------- what the cache comes to hold
\* The call before this one was for the same question, and the backend gave it
\* a text that the dispatcher rejected as too short.
AskedAgainAfterRejection ==
    /\ wrk.pc = "done"
    /\ prevCall.known
    /\ prevCall.q = req.q
    /\ prevCall.text
    /\ Unusable(prevCall.result)

\* C22: every response held by the cache is one the dispatcher accepts (10
\* characters or more after trimming), and a get_gemini_response call that
\* follows one whose answer was rejected as too short invokes the backend again.
C22_OnlyUsableCached ==
    /\ \A k \in DOMAIN cache : ~Unusable(cache[k].response)
    /\ AskedAgainAfterRejection => eff.calls # <<>>

\* ------------------------------------------------ one question at a time
\* The loop is between two questions: polling, sleeping, taking the next
\* update or answering a command.
BetweenQuestions == loop.pc \in {"poll", "for", "sleep5", "sleep10", "command"}

\* The main thread is blocked in future.result or in the shutdown of an
\* executor, or has left the loop.
MainThreadAway == req.pc \in {"waiting", "joining", "unwinding", "interrupted"}

\* C23: while the loop polls, sleeps, takes the next update or answers a
\* command, no process_math_question call is under way and no task it
\* submitted is running; a question is taken up, with its check_rate_limit
\* call, only then; response_cache.set runs in the worker only while the main
\* thread is blocked or gone; and save_question_to_json runs with no task
\* running.
C23_OneAtATime ==
    /\ [](BetweenQuestions => req.pc = "idle" /\ ~InFlight)
    /\ [][(req.pc = "idle" /\ req'.pc # "idle") => ~InFlight /\ loop.pc = "question"]_vars
    /\ [][eff'.sets > eff.sets => MainThreadAway]_vars
    /\ [][Len(eff'.logs) > Len(eff.logs) => ~InFlight]_vars

\* C23 witness: the model call of the only question ran past the timeout of
\* 60 seconds (three invocations of 30 seconds), the loop waited for it, and
\* polls again now that it is over.
C23_Witness ==
    /\ loop.pc = "poll"
    /\ DOMAIN handled = {1}
    /\ handled[1] = 1
    /\ nreq = 1
    /\ loop.sent = 1
    /\ now = MODEL_TIMEOUT + 30
    /\ prevCall.known
    /\ ~InFlight

====
